---- MODULE Spec2Model ----
(***************************************************************************)
(* Model of src/src/bin/okc-gpg.rs: the listener loop of okc-gpg, the      *)
(* connection dispatcher and the Control / Input / Output handlers.        *)
(*                                                                         *)
(* The program is one async task: run() awaits handle_connection() for     *)
(* each accepted connection before it polls the listener again, so pc is   *)
(* the position of that single task.  The peer (the companion app) and     *)
(* standard input are the environment: the peer opens connections, sends   *)
(* bytes and closes, in any interleaving with the task.                    *)
(*                                                                         *)
(* Strings are modelled as the sequence of their UTF-8 bytes.  Log records *)
(* of level debug are not tracked; info, warn and error records are.       *)
(***************************************************************************)
EXTENDS Integers, Sequences, FiniteSets, TLC

(* ---------------- bounds of the model ---------------- *)

\* number of connections the peer opens in one run
MaxConns == 2

\* number of warning frames in the longest Control session the peer sends
MaxWarnings == 2

\* frames of every length up to this one are decoded, besides the lengths
\* around 255 and the longest one
CodecShort == 8

\* the longest payload a 2-byte length can declare
MaxFrameLen == 65535

(* ---------------- bytes, frames and what the peer may send ---------------- *)

Dash == <<45>>          \* "-"
FileA == <<97>>         \* "a"
FileB == <<98>>         \* "b"
NoName == <<>>          \* "" : no file can be opened or created under it

\* the i-th warning text the peer sends: "w", "x", "y", ...
WarnText(i) == <<118 + i>>

\* contents of standard input, and of the files that exist at start
StdinData == <<104, 105>>
InitFs == [p \in {FileA, FileB} |-> IF p = FileA THEN <<10, 11>> ELSE <<20>>]

\* payload the peer sends on an Output connection
OutData == <<7, 8>>

\* the peer's encoder: 2-byte big-endian length, then the bytes
EncodeFrame(s) == <<Len(s) \div 256, Len(s) % 256>> \o s

RECURSIVE EncodeFrames(_, _)
EncodeFrames(k, upto) ==
    IF k > upto THEN <<>> ELSE EncodeFrame(WarnText(k)) \o EncodeFrames(k + 1, upto)

ControlScripts ==
    { <<0>> \o EncodeFrames(1, k) \o EncodeFrame(<<>>) \o <<st>> :
        k \in 0..MaxWarnings, st \in {0, 1} }
InputScripts == { <<1>> \o EncodeFrame(p) : p \in {Dash, FileA, FileB, NoName} }
OutputScripts ==
    { <<2>> \o EncodeFrame(Dash) \o OutData, <<2>> \o EncodeFrame(FileA) \o OutData,
      <<2>> \o EncodeFrame(NoName) }
\* an invalid connection type (3, 255) and a frame that is not UTF-8
BadScripts == { <<3>>, <<255>>, <<0, 0, 1, 255>>, <<1, 0, 2, 195, 40>> }

Scripts == ControlScripts \cup InputScripts \cup OutputScripts \cup BadScripts

IsPrefix(s, t) == Len(s) <= Len(t) /\ SubSeq(t, 1, Len(s)) = s

(* ---------------- pure functions of the program ---------------- *)

\* a length read with the low byte first
DecodeLen_LittleEndian(b0, b1) == b0 + b1 * 256

\* read_str, line 41: ((len_buf[0] as usize) << 8) + len_buf[1] as usize
DecodeLen(b0, b1) == b0 * 256 + b1

IsCont(b) == b >= 128 /\ b <= 191

\* a conversion that accepts any bytes
ValidUtf8_Lossy(bs) == TRUE

\* String::from_utf8 (line 44): Ok iff the bytes are well-formed UTF-8
RECURSIVE ValidUtf8(_)
ValidUtf8(bs) ==
    IF {i \in 1..Len(bs) : bs[i] >= 128} = {} THEN TRUE
    ELSE LET b == bs[1]
             n == Len(bs) IN
         IF b < 128 THEN ValidUtf8(Tail(bs))
         ELSE IF b >= 194 /\ b <= 223
              THEN n >= 2 /\ IsCont(bs[2]) /\ ValidUtf8(SubSeq(bs, 3, n))
         ELSE IF b >= 224 /\ b <= 239
              THEN /\ n >= 3 /\ IsCont(bs[2]) /\ IsCont(bs[3])
                   /\ (b = 224 => bs[2] >= 160)
                   /\ (b = 237 => bs[2] <= 159)
                   /\ ValidUtf8(SubSeq(bs, 4, n))
         ELSE IF b >= 240 /\ b <= 244
              THEN /\ n >= 4 /\ IsCont(bs[2]) /\ IsCont(bs[3]) /\ IsCont(bs[4])
                   /\ (b = 240 => bs[2] >= 144)
                   /\ (b = 244 => bs[2] <= 143)
                   /\ ValidUtf8(SubSeq(bs, 5, n))
         ELSE FALSE

\* a dispatch whose last arm is the Output handler
Dispatch_NoReject(b) ==
    CASE b = 0 -> "control"
      [] b = 1 -> "input"
      [] OTHER -> "output"

\* handle_connection, lines 106-114: match op[0]
Dispatch(b) ==
    CASE b = 0 -> "control"
      [] b = 1 -> "input"
      [] b = 2 -> "output"
      [] OTHER -> "invalid"

\* an emptiness test that is off by one
is_empty_Short(msg) == Len(msg) <= 1

\* handle_control_connection, lines 52-55: match msg.is_empty()
is_empty(msg) == Len(msg) = 0

\* a warning that is put in front of the earlier ones
LogWarning_Front(l, msg) == <<[level |-> "warn", text |-> "warning", data |-> msg]>> \o l

\* handle_control_connection, line 54: warn!(logger, "{}", msg)
LogWarning(l, msg) == Append(l, [level |-> "warn", text |-> "warning", data |-> msg])

\* a status match whose first arm takes every byte
StatusOk_Any(b) == TRUE

\* handle_control_connection, lines 61-64: match stat_buf[0]
StatusOk(b) == b = 0

\* a comparison that never recognises "-"
IsStd_Never(path) == FALSE

\* lines 70 and 86: &path == "-"
IsStd(path) == path = Dash

(* ---------------- state ---------------- *)

VARIABLES
    pc,          \* position of the task: bind, launch, accept, tag, str_len,
                 \* str_body, ctl_status, in_copy, out_copy, exited
    cur,         \* number of connections accepted so far = the one being handled
    op,          \* op[0] of the current connection, -1 before it is read
    rpos,        \* bytes of the current connection consumed by the task
    need,        \* len of the frame whose payload read_str is reading
    spos,        \* bytes of the opened file already copied (Input)
    conns,       \* per connection: bytes the peer sent, peer closed, bytes the
                 \* task wrote to it, what the handler opened, stream dropped
    fs,          \* the files: name -> contents
    stdout,      \* bytes written to standard output
    stdinPos,    \* bytes of standard input consumed
    stdinEof,    \* standard input has been closed by whoever feeds it
    log,         \* records handed to the logger (info, warn, error)
    guard,       \* LOG_GUARD: "Some" or "None"
    emitted,     \* records of log the sink had written out when the process exited
    exitCode,    \* -1 while running, else the exit status
    launches     \* how many times the launcher command was run

procVars == <<pc, cur, op, rpos, need, spos>>
ioVars == <<conns, fs, stdout, stdinPos, stdinEof>>
logVars == <<log, guard, emitted, exitCode>>
vars == <<pc, cur, op, rpos, need, spos, conns, fs, stdout, stdinPos, stdinEof,
          log, guard, emitted, exitCode, launches>>

Rec(level, text, data) == [level |-> level, text |-> text, data |-> data]

NotOpened == [kind |-> "none", path |-> <<>>]

NewConn == [sent |-> <<>>, closed |-> FALSE, wire |-> <<>>,
            opened |-> NotOpened, dropped |-> FALSE]

\* state after main() line 150 stored the guard, before run() is polled
Init ==
    /\ pc = "bind"
    /\ cur = 0
    /\ op = -1
    /\ rpos = 0
    /\ need = 0
    /\ spos = 0
    /\ conns = <<>>
    /\ fs = InitFs
    /\ stdout = <<>>
    /\ stdinPos = 0
    /\ stdinEof = FALSE
    /\ log = <<>>
    /\ guard = "Some"
    /\ emitted = 0
    /\ exitCode = -1
    /\ launches = 0

(* ---------------- process exit ---------------- *)

\* an exit decision that is only recorded: the accept loop goes on
exit_error_Flag(l, e) ==
    /\ log' = Append(l, Rec("error", e, <<>>))
    /\ guard' = "None"
    /\ emitted' = Len(log')
    /\ exitCode' = 1
    /\ pc' = "accept"

\* an error that is logged and skipped: the loop goes on to the next connection
exit_error_Skip(l, e) ==
    /\ log' = Append(l, Rec("error", e, <<>>))
    /\ UNCHANGED <<guard, emitted, exitCode>>
    /\ pc' = "accept"

\* exit_error, lines 30-36: log the error, take and drop the guard (which
\* joins the logging thread, so every record is written), exit(1)
exit_error(l, e) ==
    /\ log' = Append(l, Rec("error", e, <<>>))
    /\ guard' = "None"
    /\ IF guard = "Some"
         THEN emitted' = Len(log')
         ELSE emitted' \in 0..Len(log')
    /\ exitCode' = 1
    /\ pc' = "exited"

\* a successful Control session that returns Ok to the accept loop, as a
\* relay does
exit_success_Return(newlog) ==
    /\ log' = newlog
    /\ UNCHANGED <<guard, emitted, exitCode>>
    /\ pc' = "accept"

\* line 108: std::process::exit(0) called directly; LOG_GUARD is not taken,
\* so the logging thread is killed wherever it is in the queue
exit_success(newlog) ==
    /\ log' = newlog
    /\ guard' = guard
    /\ emitted' \in 0..Len(newlog)
    /\ exitCode' = 0
    /\ pc' = "exited"

(* ---------------- reading from the current connection ---------------- *)

Rx == conns[cur].sent

\* read_exact of n bytes at rpos: "ok" when they are there, "eof" when the
\* peer closed before sending them (UnexpectedEof), else the task stays suspended
ReadExact(n) ==
    IF Len(Rx) >= rpos + n THEN "ok"
    ELSE IF conns[cur].closed THEN "eof"
    ELSE "pending"

Bytes(n) == SubSeq(Rx, rpos + 1, rpos + n)

\* the handler returned Ok: its stream is dropped, run() polls the listener again
HandlerOk(c) == [conns EXCEPT ![c].dropped = TRUE]


(* ---------------- the task: run() and the handlers ---------------- *)

\* a start that goes to the accept loop without running the launcher
Bind_NoLaunch ==
    /\ pc = "bind"
    /\ pc' = "accept"
    /\ log' = Append(log, Rec("info", "listening", <<>>))
    /\ UNCHANGED <<guard, emitted, exitCode>>
    /\ UNCHANGED <<cur, op, rpos, need, spos, launches>>
    /\ UNCHANGED ioVars

\* run, lines 118-121: bind 127.0.0.1:0 and read the local address
Bind ==
    /\ pc = "bind"
    /\ \E r \in {"ok", "err"} :
        IF r = "ok"
          THEN /\ pc' = "launch"
               /\ log' = Append(log, Rec("info", "listening", <<>>))
               /\ UNCHANGED <<guard, emitted, exitCode>>
          ELSE exit_error(log, "bind")
    /\ UNCHANGED <<cur, op, rpos, need, spos, launches>>
    /\ UNCHANGED ioVars

\* run, lines 122-134: cmd.status()? fails only when the command cannot be
\* run; the exit status of the command itself is not looked at
Launch ==
    /\ pc = "launch"
    /\ launches' = launches + 1
    /\ \E r \in {"ok", "nonzero", "spawn_err"} :
        IF r = "spawn_err"
          THEN exit_error(log, "launch")
          ELSE /\ pc' = "accept"
               /\ log' = Append(log, Rec("info", "broadcast sent", <<>>))
               /\ UNCHANGED <<guard, emitted, exitCode>>
    /\ UNCHANGED <<cur, op, rpos, need, spos>>
    /\ UNCHANGED ioVars

\* run, line 136 and handle_connection, lines 100-102: the next connection
\* of the backlog is taken; the listener stream never ends, it yields a
\* stream or an error.  peer_addr() can fail as well.
Accept ==
    /\ pc = "accept"
    /\ cur < Len(conns)
    /\ \E r \in {"ok", "peer_addr_err"} :
        IF r = "ok"
          THEN /\ pc' = "tag"
               /\ UNCHANGED logVars
          ELSE exit_error(log, "io")
    /\ cur' = cur + 1
    /\ op' = -1
    /\ rpos' = 0
    /\ need' = 0
    /\ spos' = 0
    /\ UNCHANGED <<launches>>
    /\ UNCHANGED ioVars

\* line 100: accept_result? when the listener yielded an error
AcceptFail ==
    /\ pc = "accept"
    /\ exit_error(log, "accept")
    /\ UNCHANGED <<cur, op, rpos, need, spos, launches>>
    /\ UNCHANGED ioVars

\* a type byte that is looked at and left in the stream
ReadTag_Peek ==
    /\ pc = "tag"
    /\ ReadExact(1) # "pending"
    /\ IF ReadExact(1) = "eof"
         THEN /\ exit_error(log, "io")
              /\ UNCHANGED <<op, rpos>>
         ELSE /\ op' = Rx[rpos + 1]
              /\ rpos' = rpos
              /\ CASE Dispatch(op') = "control" ->
                        /\ pc' = "str_len"
                        /\ log' = Append(log, Rec("info", "control connection established", <<>>))
                        /\ UNCHANGED <<guard, emitted, exitCode>>
                   [] Dispatch(op') \in {"input", "output"} ->
                        /\ pc' = "str_len"
                        /\ UNCHANGED logVars
                   [] OTHER -> exit_error(log, "invalid connection type")
    /\ UNCHANGED <<cur, need, spos, launches>>
    /\ UNCHANGED ioVars

\* handle_connection, lines 103-114: read the type byte and dispatch on it
ReadTag ==
    /\ pc = "tag"
    /\ ReadExact(1) # "pending"
    /\ IF ReadExact(1) = "eof"
         THEN /\ exit_error(log, "io")
              /\ UNCHANGED <<op, rpos>>
         ELSE /\ op' = Rx[rpos + 1]
              /\ rpos' = rpos + 1
              /\ CASE Dispatch(op') = "control" ->
                        /\ pc' = "str_len"
                        /\ log' = Append(log, Rec("info", "control connection established", <<>>))
                        /\ UNCHANGED <<guard, emitted, exitCode>>
                   [] Dispatch(op') \in {"input", "output"} ->
                        /\ pc' = "str_len"
                        /\ UNCHANGED logVars
                   [] OTHER -> exit_error(log, "invalid connection type")
    /\ UNCHANGED <<cur, need, spos, launches>>
    /\ UNCHANGED ioVars

\* read_str, lines 39-41: the two length bytes
ReadStrLen ==
    /\ pc = "str_len"
    /\ ReadExact(2) # "pending"
    /\ IF ReadExact(2) = "eof"
         THEN /\ exit_error(log, "io")
              /\ UNCHANGED <<rpos, need>>
         ELSE /\ need' = DecodeLen(Rx[rpos + 1], Rx[rpos + 2])
              /\ rpos' = rpos + 2
              /\ pc' = "str_body"
              /\ UNCHANGED logVars
    /\ UNCHANGED <<cur, op, spos, launches>>
    /\ UNCHANGED ioVars

\* read_str, lines 42-44, failing: short read of the payload, or not UTF-8
ReadStrFail ==
    /\ pc = "str_body"
    /\ \/ ReadExact(need) = "eof"
       \/ ReadExact(need) = "ok" /\ ~ValidUtf8(Bytes(need))
    /\ exit_error(log, IF ReadExact(need) = "eof" THEN "io" ELSE "utf8")
    /\ rpos' = IF ReadExact(need) = "ok" THEN rpos + need ELSE rpos
    /\ UNCHANGED <<cur, op, need, spos, launches>>
    /\ UNCHANGED ioVars

StrReady == pc = "str_body" /\ ReadExact(need) = "ok" /\ ValidUtf8(Bytes(need))

\* handle_control_connection, lines 49-57: one turn of the loop
CtlFrame ==
    /\ StrReady
    /\ Dispatch(op) = "control"
    /\ LET msg == Bytes(need) IN
         IF is_empty(msg)
           THEN /\ pc' = "ctl_status"
                /\ UNCHANGED log
           ELSE /\ pc' = "str_len"
                /\ log' = LogWarning(log, msg)
    /\ rpos' = rpos + need
    /\ UNCHANGED <<cur, op, need, spos, launches, guard, emitted, exitCode>>
    /\ UNCHANGED ioVars

\* handle_control_connection, lines 58-64, and handle_connection, lines 107-110
CtlStatus ==
    /\ pc = "ctl_status"
    /\ ReadExact(1) # "pending"
    /\ IF ReadExact(1) = "eof"
         THEN /\ exit_error(log, "io")
              /\ UNCHANGED rpos
         ELSE /\ rpos' = rpos + 1
              /\ IF StatusOk(Rx[rpos + 1])
                   THEN exit_success(Append(log, Rec("info", "control connection finished", <<>>)))
                   ELSE exit_error(Append(log, Rec("info", "control connection finished", <<>>)),
                                   "remote")
    /\ UNCHANGED <<cur, op, need, spos, launches>>
    /\ UNCHANGED ioVars


\* the source of an Input connection and the sink of an Output connection
Opened(c) == conns[c].opened

\* handle_input_connection, lines 68-76: the path has been read; open the source
InputPath ==
    /\ StrReady
    /\ Dispatch(op) = "input"
    /\ LET path == Bytes(need)
           l == Append(log, Rec("info", "input connection established", path)) IN
         IF IsStd(path)
           THEN /\ conns' = [conns EXCEPT ![cur].opened = [kind |-> "stdin", path |-> path]]
                /\ pc' = "in_copy"
                /\ log' = l
                /\ UNCHANGED <<guard, emitted, exitCode>>
           ELSE IF path \in DOMAIN fs
           THEN /\ conns' = [conns EXCEPT ![cur].opened = [kind |-> "file", path |-> path]]
                /\ pc' = "in_copy"
                /\ log' = l
                /\ UNCHANGED <<guard, emitted, exitCode>>
           ELSE /\ exit_error(l, "io")
                /\ UNCHANGED conns
    /\ rpos' = rpos + need
    /\ spos' = 0
    /\ UNCHANGED <<cur, op, need, launches, fs, stdout, stdinPos, stdinEof>>

\* what is left of the opened source, and whether it is at EOF
SrcLeft ==
    IF Opened(cur).kind = "stdin"
      THEN SubSeq(StdinData, stdinPos + 1, Len(StdinData))
      ELSE SubSeq(fs[Opened(cur).path], spos + 1, Len(fs[Opened(cur).path]))

SrcEof == SrcLeft = <<>> /\ (Opened(cur).kind = "stdin" => stdinEof)

\* io::copy, lines 73 and 77: one more byte of the source goes to the stream
InputCopy ==
    /\ pc = "in_copy"
    /\ SrcLeft # <<>>
    /\ conns' = [conns EXCEPT ![cur].wire = Append(@, SrcLeft[1])]
    /\ IF Opened(cur).kind = "stdin"
         THEN stdinPos' = stdinPos + 1 /\ UNCHANGED spos
         ELSE spos' = spos + 1 /\ UNCHANGED stdinPos
    /\ UNCHANGED <<pc, cur, op, rpos, need, launches, fs, stdout, stdinEof>>
    /\ UNCHANGED logVars

\* io::copy fails: a write to a connection the peer has closed may be refused
InputCopyFail ==
    /\ pc = "in_copy"
    /\ SrcLeft # <<>>
    /\ conns[cur].closed
    /\ exit_error(log, "io")
    /\ UNCHANGED <<cur, op, rpos, need, spos, launches>>
    /\ UNCHANGED ioVars

\* an Input relay whose completion ends the process as a Control session does
InputDone_Exit ==
    /\ pc = "in_copy"
    /\ SrcEof
    /\ conns' = HandlerOk(cur)
    /\ exit_success(Append(log, Rec("info", "input connection finished", <<>>)))
    /\ UNCHANGED <<cur, op, rpos, need, spos, launches, fs, stdout, stdinPos, stdinEof>>

\* lines 79-80: the source is at EOF, the handler returns Ok
InputDone ==
    /\ pc = "in_copy"
    /\ SrcEof
    /\ conns' = HandlerOk(cur)
    /\ log' = Append(log, Rec("info", "input connection finished", <<>>))
    /\ pc' = "accept"
    /\ UNCHANGED <<cur, op, rpos, need, spos, launches, fs, stdout, stdinPos, stdinEof>>
    /\ UNCHANGED <<guard, emitted, exitCode>>

\* a file opened for writing without being truncated
CreateFile_Keep(f, path) ==
    [q \in DOMAIN f \cup {path} |-> IF q \in DOMAIN f THEN f[q] ELSE <<>>]

\* File::create, line 91: the file exists afterwards and is empty
CreateFile(f, path) ==
    [q \in DOMAIN f \cup {path} |-> IF q = path THEN <<>> ELSE f[q]]

\* handle_output_connection, lines 84-92: the path has been read; open the sink
OutputPath ==
    /\ StrReady
    /\ Dispatch(op) = "output"
    /\ LET path == Bytes(need)
           l == Append(log, Rec("info", "output connection established", path)) IN
         IF IsStd(path)
           THEN /\ conns' = [conns EXCEPT ![cur].opened = [kind |-> "stdout", path |-> path]]
                /\ pc' = "out_copy"
                /\ log' = l
                /\ UNCHANGED <<fs, guard, emitted, exitCode>>
           ELSE IF path # NoName
           THEN /\ conns' = [conns EXCEPT ![cur].opened = [kind |-> "file", path |-> path]]
                /\ fs' = CreateFile(fs, path)
                /\ pc' = "out_copy"
                /\ log' = l
                /\ UNCHANGED <<guard, emitted, exitCode>>
           ELSE /\ exit_error(l, "io")
                /\ UNCHANGED <<conns, fs>>
    /\ rpos' = rpos + need
    /\ UNCHANGED <<cur, op, need, spos, launches, stdout, stdinPos, stdinEof>>

\* io::copy, lines 89 and 93: one more received byte goes to the sink
OutputCopy ==
    /\ pc = "out_copy"
    /\ Len(Rx) > rpos
    /\ IF Opened(cur).kind = "stdout"
         THEN stdout' = Append(stdout, Rx[rpos + 1]) /\ UNCHANGED fs
         ELSE fs' = [fs EXCEPT ![Opened(cur).path] = Append(@, Rx[rpos + 1])] /\ UNCHANGED stdout
    /\ rpos' = rpos + 1
    /\ UNCHANGED <<pc, cur, op, need, spos, launches, conns, stdinPos, stdinEof>>
    /\ UNCHANGED logVars

\* lines 95-96: the peer closed and everything was copied, the handler returns Ok
OutputDone ==
    /\ pc = "out_copy"
    /\ Len(Rx) = rpos
    /\ conns[cur].closed
    /\ conns' = HandlerOk(cur)
    /\ log' = Append(log, Rec("info", "output connection finished", <<>>))
    /\ pc' = "accept"
    /\ UNCHANGED <<cur, op, rpos, need, spos, launches, fs, stdout, stdinPos, stdinEof>>
    /\ UNCHANGED <<guard, emitted, exitCode>>

(* ---------------- the environment ---------------- *)

Running == exitCode = -1

\* the peer connects to the bound port; the connection waits in the backlog
PeerOpen ==
    /\ Running
    /\ pc # "bind"
    /\ Len(conns) < MaxConns
    /\ conns' = Append(conns, NewConn)
    /\ UNCHANGED <<fs, stdout, stdinPos, stdinEof, launches>>
    /\ UNCHANGED procVars
    /\ UNCHANGED logVars

\* the peer sends one more byte on a connection it has not closed
PeerSend ==
    /\ Running
    /\ \E c \in 1..Len(conns), s \in Scripts :
        /\ ~conns[c].closed
        /\ ~conns[c].dropped
        /\ Len(conns[c].sent) < Len(s)
        /\ IsPrefix(conns[c].sent, s)
        /\ conns' = [conns EXCEPT ![c].sent = Append(@, s[Len(@) + 1])]
    /\ UNCHANGED <<fs, stdout, stdinPos, stdinEof, launches>>
    /\ UNCHANGED procVars
    /\ UNCHANGED logVars

\* the peer closes a connection.  The task sees a close only through the
\* reads and writes of the handler that owns the connection, so the close of
\* a connection still in the backlog is taken once it has been accepted.
PeerClose ==
    /\ Running
    /\ cur >= 1
    /\ ~conns[cur].closed
    /\ ~conns[cur].dropped
    /\ conns' = [conns EXCEPT ![cur].closed = TRUE]
    /\ UNCHANGED <<fs, stdout, stdinPos, stdinEof, launches>>
    /\ UNCHANGED procVars
    /\ UNCHANGED logVars

\* whoever feeds standard input closes it; seen only by a handler that
\* reads standard input, so it is taken while one does
StdinClose ==
    /\ Running
    /\ pc = "in_copy"
    /\ Opened(cur).kind = "stdin"
    /\ ~stdinEof
    /\ stdinEof' = TRUE
    /\ UNCHANGED <<conns, fs, stdout, stdinPos, launches>>
    /\ UNCHANGED procVars
    /\ UNCHANGED logVars

(* ---------------- specifications ---------------- *)

TaskNext ==
    \/ Bind
    \/ Launch
    \/ Accept
    \/ AcceptFail
    \/ ReadTag
    \/ ReadStrLen
    \/ ReadStrFail
    \/ CtlFrame
    \/ CtlStatus
    \/ InputPath
    \/ InputCopy
    \/ InputCopyFail
    \/ InputDone
    \/ OutputPath
    \/ OutputCopy
    \/ OutputDone

EnvNext ==
    \/ PeerOpen
    \/ PeerSend
    \/ PeerClose
    \/ StdinClose

Next == TaskNext \/ EnvNext

Spec == Init /\ [][Next]_vars

\* the runtime polls the task whenever it can take a step; nothing obliges
\* the peer or standard input to do anything
FairSpec == Spec /\ WF_vars(TaskNext)

TypeOK ==
    /\ pc \in {"bind", "launch", "accept", "tag", "str_len", "str_body",
               "ctl_status", "in_copy", "out_copy", "exited"}
    /\ cur \in 0..Len(conns)
    /\ exitCode \in {-1, 0, 1}
    /\ guard \in {"Some", "None"}


(* ---------------- what the claims speak about ---------------- *)

\* the bytes of the current connection the task has consumed
Consumed == IF cur >= 1 THEN SubSeq(conns[cur].sent, 1, rpos) ELSE <<>>

NoParse == [ok |-> FALSE, warns |-> <<>>, rest |-> <<>>]

\* the wire grammar of a Control body, read off the bytes alone: the frames
\* up to and including the first empty one, then what follows it
RECURSIVE ParseWarnings(_)
ParseWarnings(bs) ==
    IF Len(bs) < 2 THEN NoParse
    ELSE LET n == bs[1] * 256 + bs[2] IN
         IF Len(bs) < 2 + n THEN NoParse
         ELSE IF n = 0 THEN [ok |-> TRUE, warns |-> <<>>, rest |-> SubSeq(bs, 3, Len(bs))]
         ELSE LET r == ParseWarnings(SubSeq(bs, 3 + n, Len(bs))) IN
              [ok |-> r.ok, warns |-> <<SubSeq(bs, 3, 2 + n)>> \o r.warns, rest |-> r.rest]

\* tag 0, frames, one empty frame, one status byte and nothing else
CompleteSession(bs) ==
    /\ Len(bs) >= 1
    /\ bs[1] = 0
    /\ ParseWarnings(Tail(bs)).ok
    /\ Len(ParseWarnings(Tail(bs)).rest) = 1

SessionStatus(bs) == ParseWarnings(Tail(bs)).rest[1]

SessionWarnings(bs) == ParseWarnings(Tail(bs)).warns

Exited == exitCode # -1

(* ---------------- C1 ---------------- *)

\* C1: the process exits with status 0 only when the connection it was
\* handling is a Control connection whose consumed bytes are a complete
\* session with status byte 0; every other exit has status 1.
C1_ExitStatus ==
    Exited =>
        /\ exitCode \in {0, 1}
        /\ exitCode = 0 <=> (CompleteSession(Consumed) /\ SessionStatus(Consumed) = 0)

\* a relay was served, then a Control session with a warning ended the run with 0
C1_Witness ==
    /\ exitCode = 0
    /\ cur = 2
    /\ Len(SessionWarnings(Consumed)) >= 1


(* ---------------- C2 ---------------- *)

\* connection c waits in the backlog with its type byte already sent
Waiting(c) == Running /\ Len(conns) >= c /\ cur < c /\ Len(conns[c].sent) >= 1

\* the type byte of connection c has been read, or the process is gone
Served(c) == Exited \/ cur > c \/ (cur = c /\ rpos >= 1)

\* C2: every connection has its own handling unit: a connection whose type
\* byte has arrived is accepted and its handler reads that byte, whatever
\* the handler of an earlier connection is doing (e.g. blocked in a read).
C2_IndependentUnits == \A c \in 1..(MaxConns + 1) : Waiting(c) ~> Served(c)

(* ---------------- C3 ---------------- *)

\* a relay handler is copying and has not finished
MidTransfer == Running /\ pc \in {"in_copy", "out_copy"}

\* a later connection carries a complete Control session with a non-zero status
FailureDelivered ==
    \E c \in (cur + 1)..Len(conns) :
        CompleteSession(conns[c].sent) /\ SessionStatus(conns[c].sent) # 0

\* C3: once a Control connection has delivered a non-zero status while a
\* relay is mid-transfer, the process exits with status 1 without the
\* transfer having to finish.
C3_FailureNotDelayed == (MidTransfer /\ FailureDelivered) ~> (exitCode = 1)

(* ---------------- C4 ---------------- *)

\* C4: the step that reads status byte 0 of a Control session is the exit of
\* the process with status 0: no other connection is accepted, read from or
\* written to in it, whatever is open or pending.
C4_SuccessExitsAtOnce ==
    [][(pc = "ctl_status" /\ rpos' = rpos + 1 /\ conns[cur].sent[rpos + 1] = 0)
         => (exitCode' = 0 /\ pc' = "exited" /\ cur' = cur /\ conns' = conns
             /\ fs' = fs /\ stdout' = stdout)]_vars

\* exit 0 while another connection, with bytes sent on it, is still in the backlog
C4_Witness ==
    /\ exitCode = 0
    /\ Len(conns) > cur
    /\ conns[cur + 1].sent # <<>>

(* ---------------- C5 ---------------- *)

\* C5: whenever the process has exited, the log guard has been taken and
\* dropped and every record handed to the logger has been written out.
C5_FlushedOnEveryExit == Exited => (guard = "None" /\ emitted = Len(log))


(* ---------------- C6 ---------------- *)

\* the state of the Control session handler, "none" when none is running
CtlState ==
    IF cur >= 1 /\ op = 0 /\ pc \in {"str_len", "str_body"} THEN "ReadingWarnings"
    ELSE IF pc = "ctl_status" THEN "ReadingStatus"
    ELSE IF pc = "exited" /\ \E i \in 1..Len(log) : log[i].text = "control connection finished"
      THEN "Done"
    ELSE "none"

\* bs is a sequence of complete frames, none of them empty
RECURSIVE NonEmptyFrames(_)
NonEmptyFrames(bs) ==
    IF bs = <<>> THEN TRUE
    ELSE /\ Len(bs) >= 2
         /\ bs[1] * 256 + bs[2] >= 1
         /\ Len(bs) >= 2 + bs[1] * 256 + bs[2]
         /\ NonEmptyFrames(SubSeq(bs, 3 + bs[1] * 256 + bs[2], Len(bs)))

\* C6: the Control handler is in ReadingWarnings as long as every frame it
\* has read is non-empty, in ReadingStatus exactly when the last frame it
\* read is the first empty one and no byte after it has been read, and Done
\* only when exactly one status byte has been read after that empty frame.
C6_ControlOrder ==
    /\ (CtlState = "ReadingWarnings" /\ pc = "str_len")
         => NonEmptyFrames(Tail(Consumed))
    /\ (CtlState = "ReadingWarnings" /\ pc = "str_body")
         => NonEmptyFrames(SubSeq(Consumed, 2, rpos - 2))
    /\ CtlState = "ReadingStatus"
         => /\ Consumed[1] = 0
            /\ ParseWarnings(Tail(Consumed)).ok
            /\ ParseWarnings(Tail(Consumed)).rest = <<>>
    /\ CtlState = "Done" => CompleteSession(Consumed)

\* the handler is about to read the status byte after two warnings
C6_Witness ==
    /\ CtlState = "ReadingStatus"
    /\ Len(SessionWarnings(Consumed)) = 2

(* ---------------- C7 ---------------- *)

\* the texts of the warnings logged so far, in the order they were logged
RECURSIVE WarningsLogged(_)
WarningsLogged(l) ==
    IF l = <<>> THEN <<>>
    ELSE IF l[1].level = "warn" THEN <<l[1].data>> \o WarningsLogged(Tail(l))
    ELSE WarningsLogged(Tail(l))

\* position of the first record of level lv in the log, 0 when there is none
FirstAt(lv) ==
    IF \E i \in 1..Len(log) : log[i].level = lv
      THEN CHOOSE i \in 1..Len(log) :
             log[i].level = lv /\ \A j \in 1..(i - 1) : log[j].level # lv
      ELSE 0

\* C7: after a Control session of k non-empty frames, an empty frame and a
\* status byte, the warnings logged are exactly those k frames in the order
\* received; a non-zero status is then reported as the remote failure, after
\* the warnings, and the process exits with 1; status 0 exits with 0.
C7_SessionOutcome ==
    (Exited /\ CompleteSession(Consumed)) =>
        /\ WarningsLogged(log) = SessionWarnings(Consumed)
        /\ SessionStatus(Consumed) # 0 =>
             /\ exitCode = 1
             /\ log[Len(log)] = Rec("error", "remote", <<>>)
             /\ \A i \in 1..Len(log) : log[i].level = "error" => i = Len(log)
        /\ SessionStatus(Consumed) = 0 =>
             /\ exitCode = 0
             /\ FirstAt("error") = 0

\* two warnings in the order sent, then the remote failure
C7_Witness ==
    /\ exitCode = 1
    /\ CompleteSession(Consumed)
    /\ WarningsLogged(log) = <<WarnText(1), WarnText(2)>>

(* ---------------- C8 ---------------- *)

\* the log has a record with this text
Logged(text) == \E i \in 1..Len(log) : log[i].text = text

\* C8: the handler that runs is the one the first byte names (0 Control,
\* 1 Input, 2 Output); for any other first byte the process exits with 1 on
\* the invalid-connection-type error, having read nothing more from the
\* connection and having opened no file or standard stream for it.
C8_Dispatch ==
    /\ \A c \in 1..cur :
         /\ conns[c].opened.kind = "stdin" => conns[c].sent[1] = 1
         /\ conns[c].opened.kind = "stdout" => conns[c].sent[1] = 2
         /\ conns[c].opened.kind = "file" => conns[c].sent[1] \in {1, 2}
         /\ conns[c].wire # <<>> => conns[c].sent[1] = 1
    /\ pc = "ctl_status" => Consumed[1] = 0
    /\ pc = "in_copy" => Consumed[1] = 1
    /\ pc = "out_copy" => Consumed[1] = 2
    /\ Logged("control connection established") => Consumed[1] = 0
    /\ (cur >= 1 /\ rpos >= 1)
         => /\ Consumed[1] = 0 => Logged("control connection established")
            /\ (Consumed[1] = 1 /\ pc \in {"in_copy", "accept"})
                 => Logged("input connection established")
            /\ (Consumed[1] = 2 /\ pc \in {"out_copy", "accept"})
                 => Logged("output connection established")
    /\ (cur >= 1 /\ rpos >= 1 /\ Consumed[1] \notin {0, 1, 2})
         => /\ exitCode = 1
            /\ rpos = 1
            /\ log[Len(log)] = Rec("error", "invalid connection type", <<>>)
            /\ conns[cur].opened = NotOpened
            /\ conns[cur].wire = <<>>

\* a connection whose first byte is 255 was rejected
C8_Witness ==
    /\ cur >= 1
    /\ rpos = 1
    /\ Consumed = <<255>>
    /\ Exited

(* ---------------- C9 ---------------- *)

\* C9: once the exit status is set it never changes, and from then on no
\* connection is accepted, no record is logged and no byte is copied.
C9_ExitTerminal ==
    [][Exited => (exitCode' = exitCode /\ cur' = cur /\ log' = log /\ conns' = conns
                  /\ fs' = fs /\ stdout' = stdout /\ stdinPos' = stdinPos)]_vars

\* the process exited on a failure while a later connection, with bytes sent
\* on it, was still waiting
C9_Witness ==
    /\ exitCode = 1
    /\ Len(conns) > cur
    /\ conns[cur + 1].sent # <<>>

(* ---------------- C10 ---------------- *)

\* connection c carries a complete Input request, and the path it names
InputRequest(c) == Len(conns) >= c /\ conns[c].sent \in InputScripts
PathOf(c) == SubSeq(conns[c].sent, 4, Len(conns[c].sent))

\* the bytes of the source that path names at start
SourceOf(path) ==
    IF path = Dash THEN StdinData
    ELSE IF path \in DOMAIN InitFs THEN InitFs[path]
    ELSE <<>>

\* connection c has been written every byte of the source its path names
Relayed(c) == Len(conns) >= c /\ conns[c].wire = SourceOf(PathOf(c))

\* C10: two Input connections with different paths that are open together
\* are each relayed their own source to completion, neither waiting for the
\* other to finish.
C10_TwoInputsIndependent ==
    (Running /\ InputRequest(1) /\ InputRequest(2) /\ PathOf(1) # PathOf(2))
      ~> (Exited \/ (Relayed(1) /\ Relayed(2)))

(* ---------------- C11 ---------------- *)

\* the step is one of the task, not of the peer or of standard input
TaskStep == <<pc, cur, rpos, spos, stdinPos>>' # <<pc, cur, rpos, spos, stdinPos>>

\* the peer closed the current connection before sending the n bytes the
\* handler is reading
ShortRead(n) == conns[cur].closed /\ Len(conns[cur].sent) < rpos + n

\* bytes that cannot be UTF-8, told from the encoding's table alone: a byte
\* that never occurs, or a two-byte lead that no continuation byte follows
NotUtf8(bs) ==
    \E i \in 1..Len(bs) :
        \/ bs[i] \in {192, 193} \cup 245..255
        \/ /\ bs[i] \in 194..223
           /\ (i = Len(bs) \/ bs[i + 1] \notin 128..191)

\* the frame whose payload is being read, once all its bytes are there
FramePayload == SubSeq(conns[cur].sent, rpos + 1, rpos + need)
FrameThere == Len(conns[cur].sent) >= rpos + need

\* the handler of the current connection is at an error: a short read of
\* the type byte, of a frame or of the status byte, a frame that is not
\* UTF-8, or a path that cannot be opened
HandlerError ==
    \/ pc \in {"tag", "ctl_status"} /\ ShortRead(1)
    \/ pc = "str_len" /\ ShortRead(2)
    \/ pc = "str_body" /\ ShortRead(need)
    \/ pc = "str_body" /\ FrameThere /\ NotUtf8(FramePayload)
    \/ /\ pc = "str_body"
       /\ FrameThere
       /\ \/ conns[cur].sent[1] = 1 /\ FramePayload \notin {Dash} \cup DOMAIN fs
          \/ conns[cur].sent[1] = 2 /\ FramePayload = <<>>

\* C11: a step the task takes at an error of the connection it handles, a
\* failed accept or a failed copy ends the process with status 1: the error
\* is not retried or skipped and no connection is accepted afterwards; a
\* Control connection closed before its status byte never gives status 0.
C11_NoPartialFailure ==
    [][/\ (TaskStep /\ HandlerError)
            => (pc' = "exited" /\ exitCode' = 1 /\ cur' = cur)
       /\ (TaskStep /\ log' # log /\ log'[Len(log')].level = "error")
            => (pc' = "exited" /\ exitCode' = 1)
       /\ (pc = "ctl_status" /\ ShortRead(1)) => exitCode' # 0]_vars

\* the peer closed a Control connection after the empty frame, before the
\* status byte, and the process has exited
C11_Witness ==
    /\ Exited
    /\ cur >= 1
    /\ conns[cur].sent = <<0, 0, 0>>
    /\ conns[cur].closed
    /\ rpos = 3

(* ---------------- the frame codec on its own ---------------- *)

CodecLens == 0..CodecShort \cup {255, 256, 257, MaxFrameLen}

\* a string of n bytes: all "a", all "z", an "e-acute" (two bytes) followed by
\* "a"s, or "e-acute" repeated (padded with an "a" when n is odd)
Fill(n, kind) ==
    [i \in 1..n |->
        CASE kind = "a" -> 97
          [] kind = "z" -> 122
          [] kind = "e" -> IF n >= 2 /\ i = 1 THEN 195
                           ELSE IF n >= 2 /\ i = 2 THEN 169 ELSE 97
          [] OTHER -> IF i = n /\ n % 2 = 1 THEN 97
                      ELSE IF i % 2 = 1 THEN 195 ELSE 169]

CodecStrings ==
    {Fill(n, k) : n \in CodecLens, k \in {"a", "z", "e"}}
        \cup {Fill(n, "ee") : n \in 0..CodecShort}

\* what the peer has sent on a Control connection: the type byte and one
\* encoded string, or the type byte and two length bytes with no payload yet
CodecStreams ==
    {<<0>> \o EncodeFrame(s) : s \in CodecStrings}
        \cup {<<0, b0, b1>> : b0 \in {0, 1, 127, 128, 255}, b1 \in {0, 1, 127, 128, 255}}

\* the task has accepted connection 1 and read its type byte 0; read_str is
\* about to run on the rest of the stream
CodecInit ==
    /\ pc = "str_len"
    /\ cur = 1
    /\ op = 0
    /\ rpos = 1
    /\ need = 0
    /\ spos = 0
    /\ conns \in {<<[NewConn EXCEPT !.sent = st]>> : st \in CodecStreams}
    /\ fs = InitFs
    /\ stdout = <<>>
    /\ stdinPos = 0
    /\ stdinEof = FALSE
    /\ log = <<Rec("info", "listening", <<>>), Rec("info", "broadcast sent", <<>>),
               Rec("info", "control connection established", <<>>)>>
    /\ guard = "Some"
    /\ emitted = 0
    /\ exitCode = -1
    /\ launches = 1

CodecNext ==
    \/ ReadStrLen
    \/ CtlFrame

CodecSpec == CodecInit /\ [][CodecNext]_vars

(* ---------------- C12 ---------------- *)

CodecStream == conns[1].sent

\* the bytes after the two length bytes, and whether the stream is the
\* encoding of exactly those bytes
CodecInput == SubSeq(CodecStream, 4, Len(CodecStream))
IsEncoded ==
    /\ CodecStream[2] = Len(CodecInput) \div 256
    /\ CodecStream[3] = Len(CodecInput) % 256

\* read_str has returned: the handler went on to the status byte (empty
\* string) or logged the string and came back for the next frame
Decoded == pc = "ctl_status" \/ (pc = "str_len" /\ rpos > 1)

\* C12: read_str on the encoding of S (2-byte big-endian length, then the
\* bytes) returns exactly S and consumes exactly 2 + len(S) bytes; the
\* length it decodes is b0 * 256 + b1 and never exceeds 65535.
C12_RoundTrip ==
    /\ Running
    /\ pc = "str_body"
         => /\ rpos = 3
            /\ need = CodecStream[2] * 256 + CodecStream[3]
            /\ need <= MaxFrameLen
            /\ IsEncoded => need = Len(CodecInput)
    /\ Decoded
         => /\ IsEncoded
            /\ rpos = 1 + 2 + Len(CodecInput)
            /\ CodecInput = <<>> => (pc = "ctl_status" /\ Len(log) = 3)
            /\ CodecInput # <<>>
                 => /\ pc = "str_len"
                    /\ Len(log) = 4
                    /\ log[4].level = "warn"
                    /\ log[4].data = CodecInput

\* a string of 65535 bytes has been decoded
C12_Witness ==
    /\ Decoded
    /\ Len(CodecInput) = MaxFrameLen
    /\ log[Len(log)].data = CodecInput

(* ---------------- C13 ---------------- *)

\* read_str cannot return a string: the stream ended before the 2 length
\* bytes or before the declared payload, or the payload is all there and is
\* not UTF-8
DecodeFails ==
    \/ pc = "str_len" /\ ShortRead(2)
    \/ pc = "str_body" /\ ShortRead(need)
    \/ pc = "str_body" /\ FrameThere /\ NotUtf8(FramePayload)

\* C13: when frame decoding fails on a short read or on a payload that is
\* not UTF-8, the handler fails with it: the only record logged is the
\* error (an I/O error for the short read, a conversion error otherwise),
\* no warning is logged, nothing is opened or written, and the process
\* exits with status 1.
C13_DecodeFailure ==
    [][(TaskStep /\ DecodeFails)
         => /\ pc' = "exited"
            /\ exitCode' = 1
            /\ log' = Append(log, Rec("error",
                                      IF pc = "str_body" /\ FrameThere THEN "utf8" ELSE "io",
                                      <<>>))
            /\ conns' = conns
            /\ fs' = fs
            /\ stdout' = stdout]_vars

\* a frame whose declared length matches its payload was refused as not UTF-8
C13_Witness ==
    /\ Exited
    /\ log[Len(log)].text = "utf8"
    /\ rpos = Len(conns[cur].sent)
    /\ rpos = 3 + need

(* ---------------- C14 ---------------- *)

\* connection c is an Input (an Output) connection by its first byte
IsInput(c) == Len(conns[c].sent) >= 1 /\ conns[c].sent[1] = 1
IsOutput(c) == Len(conns[c].sent) >= 1 /\ conns[c].sent[1] = 2

\* the bytes connection c sent after its path frame
Payload(c) ==
    SubSeq(conns[c].sent, 4 + Len(conns[c].opened.path), Len(conns[c].sent))

\* the Output connections before c that created the file path
WritersBefore(c, path) ==
    {d \in 1..(c - 1) :
        IsOutput(d) /\ conns[d].opened.kind = "file" /\ conns[d].opened.path = path}

\* the contents of the file path when connection c is handled
FileBefore(c, path) ==
    IF WritersBefore(c, path) = {}
      THEN InitFs[path]
      ELSE Payload(CHOOSE d \in WritersBefore(c, path) :
                      \A e \in WritersBefore(c, path) : e <= d)

\* the bytes of standard input relayed by the connections up to c
RECURSIVE StdinTaken(_)
StdinTaken(c) ==
    IF c = 0 THEN 0
    ELSE StdinTaken(c - 1)
           + (IF conns[c].opened.kind = "stdin" THEN Len(conns[c].wire) ELSE 0)

\* the bytes the source of Input connection c holds when c opens it
SourceBefore(c) ==
    IF conns[c].opened.kind = "stdin"
      THEN SubSeq(StdinData, StdinTaken(c - 1) + 1, Len(StdinData))
      ELSE FileBefore(c, conns[c].opened.path)

\* the path frame of the current connection, once read_str is over with it
PathRead ==
    /\ pc \notin {"tag", "str_len", "str_body"}
    /\ rpos >= 3
    /\ rpos >= 3 + Consumed[2] * 256 + Consumed[3]
ThePath == SubSeq(Consumed, 4, 3 + Consumed[2] * 256 + Consumed[3])

\* C14: an Input handler reads exactly one path frame, opens standard input
\* for "-" and the named file otherwise, and what it writes to the
\* connection is the source byte for byte from its start, in order; the
\* stream is dropped only once the whole source, up to EOF, has been written.
C14_InputRelay ==
    /\ (cur >= 1 /\ IsInput(cur) /\ PathRead)
         => /\ ThePath = Dash
                 => conns[cur].opened = [kind |-> "stdin", path |-> Dash]
            /\ ThePath \in DOMAIN fs
                 => conns[cur].opened = [kind |-> "file", path |-> ThePath]
            /\ ThePath \notin {Dash} \cup DOMAIN fs
                 => (conns[cur].opened = NotOpened /\ Exited)
    /\ pc = "in_copy" => (IsInput(cur) /\ rpos = 3 + Len(ThePath))
    /\ \A c \in 1..cur :
         (IsInput(c) /\ conns[c].opened.kind # "none")
           => /\ IsPrefix(conns[c].wire, SourceBefore(c))
              /\ conns[c].dropped
                   => /\ conns[c].wire = SourceBefore(c)
                      /\ conns[c].opened.kind = "stdin" => stdinEof
    /\ \A c \in 1..Len(conns) :
         conns[c].wire # <<>> => (c <= cur /\ IsInput(c))

\* a relay of standard input and then one of file "a" have both completed
C14_Witness ==
    /\ cur = 2
    /\ conns[1].dropped
    /\ conns[1].opened.kind = "stdin"
    /\ conns[1].wire = StdinData
    /\ conns[2].dropped
    /\ conns[2].wire = InitFs[FileA]

(* ---------------- C15 ---------------- *)

\* what the Output connections up to c that opened standard output have
\* received after their path frames, in the order of the connections
RECURSIVE StdoutOf(_)
StdoutOf(c) ==
    IF c = 0 THEN <<>>
    ELSE StdoutOf(c - 1)
           \o (IF conns[c].opened.kind = "stdout"
                 THEN IF c = cur THEN SubSeq(conns[c].sent, 4 + Len(Dash), rpos)
                      ELSE Payload(c)
                 ELSE <<>>)

\* no Output connection after c has created the same file again
LastWriter(c) ==
    \A d \in (c + 1)..cur :
        ~(conns[d].opened.kind = "file" /\ IsOutput(d)
          /\ conns[d].opened.path = conns[c].opened.path)

\* C15: an Output handler reads exactly one path frame, opens standard
\* output for "-" and creates or truncates the named file otherwise; the
\* sink holds the bytes received after the path frame, verbatim and in
\* order, and when the peer has closed and the handler has returned, all of
\* them and nothing else: the file's size is the number of bytes received.
C15_OutputRelay ==
    /\ (cur >= 1 /\ IsOutput(cur) /\ PathRead)
         => /\ ThePath = Dash
                 => conns[cur].opened = [kind |-> "stdout", path |-> Dash]
            /\ ThePath = <<>>
                 => (conns[cur].opened = NotOpened /\ Exited)
            /\ (ThePath \notin {Dash, <<>>} /\ ~NotUtf8(ThePath))
                 => conns[cur].opened = [kind |-> "file", path |-> ThePath]
    /\ pc = "out_copy"
         => /\ IsOutput(cur)
            /\ rpos >= 3 + Len(ThePath)
            /\ conns[cur].opened.kind = "file"
                 => fs[ThePath] = SubSeq(conns[cur].sent, 4 + Len(ThePath), rpos)
    /\ \A c \in 1..cur :
         (IsOutput(c) /\ conns[c].dropped)
           => /\ conns[c].closed
              /\ (conns[c].opened.kind = "file" /\ LastWriter(c))
                   => /\ fs[conns[c].opened.path] = Payload(c)
                      /\ Len(fs[conns[c].opened.path])
                           = Len(conns[c].sent) - 3 - Len(conns[c].opened.path)
    /\ stdout = StdoutOf(cur)
    /\ \A p \in DOMAIN fs :
         fs[p] # (IF p \in DOMAIN InitFs THEN InitFs[p] ELSE <<>>)
           => \E c \in 1..cur : IsOutput(c) /\ conns[c].opened = [kind |-> "file", path |-> p]

\* file "a", which held two other bytes, holds exactly the two bytes received
C15_Witness ==
    /\ cur >= 1
    /\ conns[1].dropped
    /\ conns[1].opened = [kind |-> "file", path |-> FileA]
    /\ fs[FileA] = OutData
    /\ InitFs[FileA] # OutData

(* ---------------- C16 ---------------- *)

\* the listener is bound: run() has logged the port it listens on
Bound == Len(log) >= 1 /\ log[1] = Rec("info", "listening", <<>>)

\* the launcher command could not be run
LaunchFailed == \E i \in 1..Len(log) : log[i] = Rec("error", "launch", <<>>)

\* C16: the launcher is run at most once and only with the listener bound;
\* a connection is accepted only after the one launcher call has returned;
\* if the launcher call fails the process has exited with status 1 and has
\* accepted no connection.
C16_StartupOrder ==
    /\ launches \in {0, 1}
    /\ launches = 1 => Bound
    /\ pc = "bind" => (launches = 0 /\ cur = 0 /\ conns = <<>>)
    /\ pc = "launch" => (Bound /\ launches = 0 /\ cur = 0)
    /\ pc \in {"accept", "tag", "str_len", "str_body", "ctl_status", "in_copy", "out_copy"}
         => (Bound /\ launches = 1)
    /\ cur >= 1 => (launches = 1 /\ ~LaunchFailed)
    /\ LaunchFailed => (exitCode = 1 /\ cur = 0 /\ launches = 1 /\ log[Len(log)].text = "launch")

\* the launcher could not be run while a connection was already waiting
C16_Witness ==
    /\ LaunchFailed
    /\ Len(conns) >= 1
    /\ conns[1].sent # <<>>

(* ---------------- C17 ---------------- *)

\* the handler that is running, by the place of the task in the code
HandlerAt ==
    CASE pc = "ctl_status" -> {0}
      [] pc = "in_copy" -> {1}
      [] pc = "out_copy" -> {2}
      [] pc \in {"str_len", "str_body"} -> {0, 1, 2}
      [] OTHER -> {}

\* C17: on a connection the type byte is the first byte read and is read
\* once: the read position never goes back, the type read never changes,
\* and every later read, write, open and warning on that connection is done
\* by the handler that byte selects; no other connection is touched.
C17_Sequential ==
    [][/\ pc = "tag" => (rpos = 0 /\ op = -1)
       /\ (cur >= 1 /\ pc \notin {"tag", "accept", "exited"})
            => (rpos >= 1 /\ op = conns[cur].sent[1] /\ op \in HandlerAt)
       /\ (cur' = cur /\ cur >= 1)
            => /\ rpos' >= rpos
               /\ op # -1 => op' = op
               /\ rpos >= 1 => pc' # "tag"
               /\ (rpos = 0 /\ rpos' # 0) => (pc = "tag" /\ rpos' = 1)
       /\ \A c \in 1..Len(conns) :
            \/ /\ conns'[c].wire = conns[c].wire
               /\ conns'[c].opened = conns[c].opened
               /\ conns'[c].dropped = conns[c].dropped
            \/ /\ c = cur
               /\ cur' = cur
               /\ op \in {1, 2}
               /\ op = conns[c].sent[1]
               /\ conns'[c].wire # conns[c].wire => (op = 1 /\ pc = "in_copy")
       /\ WarningsLogged(log') # WarningsLogged(log) => (op = 0 /\ cur' = cur)
       /\ (fs' # fs \/ stdout' # stdout) => (op = 2 /\ cur' = cur)
       /\ stdinPos' # stdinPos => (op = 1 /\ cur' = cur)]_vars

\* a Control handler has read the type byte, two warning frames and the
\* empty frame, one after the other
C17_Witness ==
    /\ pc = "ctl_status"
    /\ rpos = 9
    /\ Len(WarningsLogged(log)) = 2

(* ---------------- C18 ---------------- *)

\* the step in which the relay handler of connection c returns Ok
RelayReturns(c) ==
    /\ c = cur
    /\ pc \in {"in_copy", "out_copy"}
    /\ ~conns[c].dropped
    /\ conns'[c].dropped

\* the relay connections handled to completion so far
RelaysDone == {c \in 1..Len(conns) : conns[c].dropped /\ conns[c].sent[1] \in {1, 2}}

\* C18: the step in which an Input or Output handler returns without error
\* leaves the process running with no exit outcome and the log guard in
\* place, and takes the task back to the accept loop, where the next
\* connection of the backlog can be accepted; this holds after any number of
\* completed relays.
C18_RelayKeepsRunning ==
    [][/\ \A c \in 1..Len(conns) :
            RelayReturns(c) =>
                /\ pc' = "accept"
                /\ exitCode' = -1
                /\ guard' = guard
                /\ cur' = cur
       /\ (RelaysDone # {} /\ ~Exited /\ pc = "accept" /\ cur < Len(conns))
            => ENABLED Accept
       /\ (pc \in {"in_copy", "out_copy"} /\ exitCode' # exitCode)
            => (exitCode' = 1 /\ cur \notin RelaysDone')]_vars

\* two relay connections in a row have been handled to completion and the
\* process is still in the accept loop
C18_Witness ==
    /\ RelaysDone = {1, 2}
    /\ pc = "accept"
    /\ exitCode = -1
    /\ guard # "None"

(* ---------------- C19 ---------------- *)

\* the peer has opened a Control connection and sent a whole session on it
SessionSent == \E c \in 1..Len(conns) : CompleteSession(conns[c].sent)

\* C19: once the peer has sent a well-formed Control session on some
\* connection, the process eventually exits, whatever relay connections
\* were opened before it and whether or not they ever finish.
C19_SessionTerminates == SessionSent ~> Exited

====
